---- MODULE Spec2Model ----
(***************************************************************************)
(* Model of the huggingface-env repository:                                *)
(*   src/src/project/config/settings.py   settings records and the         *)
(*                                        process-wide settings provider   *)
(*   src/scripts/generate_diagrams.py     the Mermaid diagram script       *)
(*                                                                         *)
(* A text (Python str) is a sequence of characters.  A printable ASCII     *)
(* character is the one-character string; tab, newline, form feed and      *)
(* carriage return are "\t", "\n", "\f", "\r"; every other character is    *)
(* the string "U+" followed by its code point in at least four hexadecimal *)
(* digits ("U+0000" is NUL, "U+0663" is ARABIC-INDIC DIGIT THREE).         *)
(* A Python Optional is a sequence of length at most one: None is <<>>, a  *)
(* value v is <<v>>.  The same encoding is used for a keyword argument     *)
(* that may or may not be supplied to a constructor.                       *)
(*                                                                         *)
(* Fields of Settings that no property below depends on (env, debug,       *)
(* log_level, api_host) and the non-path fields of the three sub-records   *)
(* are plain defaults with no effect on the environment or the filesystem  *)
(* and are left out of the records.                                        *)
(***************************************************************************)
EXTENDS Integers, Sequences, FiniteSets, TLC

(* environ    the process environment table: name -> Optional text          *)
(* fs         the filesystem: [dirs, files], two sets of locations, the     *)
(*            working directory and the directories above it among dirs     *)
(* _settings  the module-level slot: None or the stored Settings instance   *)
(* allocated  number of Settings instances constructed so far; the n-th has *)
(*            id n, and two references are the same object iff the ids are  *)
(*            equal                                                         *)
(* last       the latest call: operation, arguments, outcome ("return" or   *)
(*            "raise"), what raised, the returned value and the state       *)
(*            before the call                                               *)
(* pinned     the explicit hf_home / hf_token most recently written to the  *)
(*            environment by a successful construction and not changed      *)
(*            otherwise since                                               *)
(* external   number of changes the embedding program made to environ       *)
(* threads    position and locals of each thread inside get_settings        *)
(* script     state of one run of generate_diagrams.py                      *)
VARIABLES environ, fs, _settings, allocated, last, pinned, external, threads, script

vars == <<environ, fs, _settings, allocated, last, pinned, external, threads, script>>

-----------------------------------------------------------------------------
(* Bounds of the model: Settings instances constructed in one run, changes *)
(* the embedding program makes to the environment, and .mmd files in the   *)
(* input directory of the diagram script.                                  *)

MaxInstances == 2

MaxExternal == 1

MaxFiles == 3

-----------------------------------------------------------------------------
(* Optional values *)

None == <<>>

Some(v) == <<v>>

IsNone(o) == Len(o) = 0

Val(o) == o[1]

-----------------------------------------------------------------------------
(* Texts used by the program and by the inputs *)

TxtHome == <<"/", "h", "o", "m", "e", "/", "u">>

TxtCache == <<".", "c", "a", "c", "h", "e">>

TxtHuggingface == <<"h", "u", "g", "g", "i", "n", "g", "f", "a", "c", "e">>

TxtOutputs == <<".", "/", "o", "u", "t", "p", "u", "t", "s">>

TxtData == <<".", "/", "d", "a", "t", "a">>

Txt8000 == <<"8", "0", "0", "0">>

Txt4 == <<"4">>

(* The characters int() strips: those for which str.isspace() holds, less  *)
(* the ASCII separators U+001C..U+001F, which int() rejects.               *)
Whitespace ==
    {"\t", "\n", "U+000B", "\f", "\r", " ", "U+0085", "U+00A0", "U+1680",
     "U+2000", "U+2001", "U+2002", "U+2003", "U+2004", "U+2005", "U+2006",
     "U+2007", "U+2008", "U+2009", "U+200A", "U+2028", "U+2029", "U+202F",
     "U+205F", "U+3000"}

NUL == "U+0000"

(* The decimal digits (Unicode category Nd) int() accepts: one row per      *)
(* script, the digits 0 to 9 of the script from left to right.             *)
DigitRows ==
    << <<"0", "1", "2", "3", "4", "5", "6", "7", "8", "9">>,
      <<"U+0660", "U+0661", "U+0662", "U+0663", "U+0664", "U+0665", "U+0666", "U+0667", "U+0668", "U+0669">>,
      <<"U+06F0", "U+06F1", "U+06F2", "U+06F3", "U+06F4", "U+06F5", "U+06F6", "U+06F7", "U+06F8", "U+06F9">>,
      <<"U+07C0", "U+07C1", "U+07C2", "U+07C3", "U+07C4", "U+07C5", "U+07C6", "U+07C7", "U+07C8", "U+07C9">>,
      <<"U+0966", "U+0967", "U+0968", "U+0969", "U+096A", "U+096B", "U+096C", "U+096D", "U+096E", "U+096F">>,
      <<"U+09E6", "U+09E7", "U+09E8", "U+09E9", "U+09EA", "U+09EB", "U+09EC", "U+09ED", "U+09EE", "U+09EF">>,
      <<"U+0A66", "U+0A67", "U+0A68", "U+0A69", "U+0A6A", "U+0A6B", "U+0A6C", "U+0A6D", "U+0A6E", "U+0A6F">>,
      <<"U+0AE6", "U+0AE7", "U+0AE8", "U+0AE9", "U+0AEA", "U+0AEB", "U+0AEC", "U+0AED", "U+0AEE", "U+0AEF">>,
      <<"U+0B66", "U+0B67", "U+0B68", "U+0B69", "U+0B6A", "U+0B6B", "U+0B6C", "U+0B6D", "U+0B6E", "U+0B6F">>,
      <<"U+0BE6", "U+0BE7", "U+0BE8", "U+0BE9", "U+0BEA", "U+0BEB", "U+0BEC", "U+0BED", "U+0BEE", "U+0BEF">>,
      <<"U+0C66", "U+0C67", "U+0C68", "U+0C69", "U+0C6A", "U+0C6B", "U+0C6C", "U+0C6D", "U+0C6E", "U+0C6F">>,
      <<"U+0CE6", "U+0CE7", "U+0CE8", "U+0CE9", "U+0CEA", "U+0CEB", "U+0CEC", "U+0CED", "U+0CEE", "U+0CEF">>,
      <<"U+0D66", "U+0D67", "U+0D68", "U+0D69", "U+0D6A", "U+0D6B", "U+0D6C", "U+0D6D", "U+0D6E", "U+0D6F">>,
      <<"U+0DE6", "U+0DE7", "U+0DE8", "U+0DE9", "U+0DEA", "U+0DEB", "U+0DEC", "U+0DED", "U+0DEE", "U+0DEF">>,
      <<"U+0E50", "U+0E51", "U+0E52", "U+0E53", "U+0E54", "U+0E55", "U+0E56", "U+0E57", "U+0E58", "U+0E59">>,
      <<"U+0ED0", "U+0ED1", "U+0ED2", "U+0ED3", "U+0ED4", "U+0ED5", "U+0ED6", "U+0ED7", "U+0ED8", "U+0ED9">>,
      <<"U+0F20", "U+0F21", "U+0F22", "U+0F23", "U+0F24", "U+0F25", "U+0F26", "U+0F27", "U+0F28", "U+0F29">>,
      <<"U+1040", "U+1041", "U+1042", "U+1043", "U+1044", "U+1045", "U+1046", "U+1047", "U+1048", "U+1049">>,
      <<"U+1090", "U+1091", "U+1092", "U+1093", "U+1094", "U+1095", "U+1096", "U+1097", "U+1098", "U+1099">>,
      <<"U+17E0", "U+17E1", "U+17E2", "U+17E3", "U+17E4", "U+17E5", "U+17E6", "U+17E7", "U+17E8", "U+17E9">>,
      <<"U+1810", "U+1811", "U+1812", "U+1813", "U+1814", "U+1815", "U+1816", "U+1817", "U+1818", "U+1819">>,
      <<"U+1946", "U+1947", "U+1948", "U+1949", "U+194A", "U+194B", "U+194C", "U+194D", "U+194E", "U+194F">>,
      <<"U+19D0", "U+19D1", "U+19D2", "U+19D3", "U+19D4", "U+19D5", "U+19D6", "U+19D7", "U+19D8", "U+19D9">>,
      <<"U+1A80", "U+1A81", "U+1A82", "U+1A83", "U+1A84", "U+1A85", "U+1A86", "U+1A87", "U+1A88", "U+1A89">>,
      <<"U+1A90", "U+1A91", "U+1A92", "U+1A93", "U+1A94", "U+1A95", "U+1A96", "U+1A97", "U+1A98", "U+1A99">>,
      <<"U+1B50", "U+1B51", "U+1B52", "U+1B53", "U+1B54", "U+1B55", "U+1B56", "U+1B57", "U+1B58", "U+1B59">>,
      <<"U+1BB0", "U+1BB1", "U+1BB2", "U+1BB3", "U+1BB4", "U+1BB5", "U+1BB6", "U+1BB7", "U+1BB8", "U+1BB9">>,
      <<"U+1C40", "U+1C41", "U+1C42", "U+1C43", "U+1C44", "U+1C45", "U+1C46", "U+1C47", "U+1C48", "U+1C49">>,
      <<"U+1C50", "U+1C51", "U+1C52", "U+1C53", "U+1C54", "U+1C55", "U+1C56", "U+1C57", "U+1C58", "U+1C59">>,
      <<"U+A620", "U+A621", "U+A622", "U+A623", "U+A624", "U+A625", "U+A626", "U+A627", "U+A628", "U+A629">>,
      <<"U+A8D0", "U+A8D1", "U+A8D2", "U+A8D3", "U+A8D4", "U+A8D5", "U+A8D6", "U+A8D7", "U+A8D8", "U+A8D9">>,
      <<"U+A900", "U+A901", "U+A902", "U+A903", "U+A904", "U+A905", "U+A906", "U+A907", "U+A908", "U+A909">>,
      <<"U+A9D0", "U+A9D1", "U+A9D2", "U+A9D3", "U+A9D4", "U+A9D5", "U+A9D6", "U+A9D7", "U+A9D8", "U+A9D9">>,
      <<"U+A9F0", "U+A9F1", "U+A9F2", "U+A9F3", "U+A9F4", "U+A9F5", "U+A9F6", "U+A9F7", "U+A9F8", "U+A9F9">>,
      <<"U+AA50", "U+AA51", "U+AA52", "U+AA53", "U+AA54", "U+AA55", "U+AA56", "U+AA57", "U+AA58", "U+AA59">>,
      <<"U+ABF0", "U+ABF1", "U+ABF2", "U+ABF3", "U+ABF4", "U+ABF5", "U+ABF6", "U+ABF7", "U+ABF8", "U+ABF9">>,
      <<"U+FF10", "U+FF11", "U+FF12", "U+FF13", "U+FF14", "U+FF15", "U+FF16", "U+FF17", "U+FF18", "U+FF19">>,
      <<"U+104A0", "U+104A1", "U+104A2", "U+104A3", "U+104A4", "U+104A5", "U+104A6", "U+104A7", "U+104A8", "U+104A9">>,
      <<"U+10D30", "U+10D31", "U+10D32", "U+10D33", "U+10D34", "U+10D35", "U+10D36", "U+10D37", "U+10D38", "U+10D39">>,
      <<"U+11066", "U+11067", "U+11068", "U+11069", "U+1106A", "U+1106B", "U+1106C", "U+1106D", "U+1106E", "U+1106F">>,
      <<"U+110F0", "U+110F1", "U+110F2", "U+110F3", "U+110F4", "U+110F5", "U+110F6", "U+110F7", "U+110F8", "U+110F9">>,
      <<"U+11136", "U+11137", "U+11138", "U+11139", "U+1113A", "U+1113B", "U+1113C", "U+1113D", "U+1113E", "U+1113F">>,
      <<"U+111D0", "U+111D1", "U+111D2", "U+111D3", "U+111D4", "U+111D5", "U+111D6", "U+111D7", "U+111D8", "U+111D9">>,
      <<"U+112F0", "U+112F1", "U+112F2", "U+112F3", "U+112F4", "U+112F5", "U+112F6", "U+112F7", "U+112F8", "U+112F9">>,
      <<"U+11450", "U+11451", "U+11452", "U+11453", "U+11454", "U+11455", "U+11456", "U+11457", "U+11458", "U+11459">>,
      <<"U+114D0", "U+114D1", "U+114D2", "U+114D3", "U+114D4", "U+114D5", "U+114D6", "U+114D7", "U+114D8", "U+114D9">>,
      <<"U+11650", "U+11651", "U+11652", "U+11653", "U+11654", "U+11655", "U+11656", "U+11657", "U+11658", "U+11659">>,
      <<"U+116C0", "U+116C1", "U+116C2", "U+116C3", "U+116C4", "U+116C5", "U+116C6", "U+116C7", "U+116C8", "U+116C9">>,
      <<"U+11730", "U+11731", "U+11732", "U+11733", "U+11734", "U+11735", "U+11736", "U+11737", "U+11738", "U+11739">>,
      <<"U+118E0", "U+118E1", "U+118E2", "U+118E3", "U+118E4", "U+118E5", "U+118E6", "U+118E7", "U+118E8", "U+118E9">>,
      <<"U+11950", "U+11951", "U+11952", "U+11953", "U+11954", "U+11955", "U+11956", "U+11957", "U+11958", "U+11959">>,
      <<"U+11C50", "U+11C51", "U+11C52", "U+11C53", "U+11C54", "U+11C55", "U+11C56", "U+11C57", "U+11C58", "U+11C59">>,
      <<"U+11D50", "U+11D51", "U+11D52", "U+11D53", "U+11D54", "U+11D55", "U+11D56", "U+11D57", "U+11D58", "U+11D59">>,
      <<"U+11DA0", "U+11DA1", "U+11DA2", "U+11DA3", "U+11DA4", "U+11DA5", "U+11DA6", "U+11DA7", "U+11DA8", "U+11DA9">>,
      <<"U+16A60", "U+16A61", "U+16A62", "U+16A63", "U+16A64", "U+16A65", "U+16A66", "U+16A67", "U+16A68", "U+16A69">>,
      <<"U+16AC0", "U+16AC1", "U+16AC2", "U+16AC3", "U+16AC4", "U+16AC5", "U+16AC6", "U+16AC7", "U+16AC8", "U+16AC9">>,
      <<"U+16B50", "U+16B51", "U+16B52", "U+16B53", "U+16B54", "U+16B55", "U+16B56", "U+16B57", "U+16B58", "U+16B59">>,
      <<"U+1D7CE", "U+1D7CF", "U+1D7D0", "U+1D7D1", "U+1D7D2", "U+1D7D3", "U+1D7D4", "U+1D7D5", "U+1D7D6", "U+1D7D7">>,
      <<"U+1D7D8", "U+1D7D9", "U+1D7DA", "U+1D7DB", "U+1D7DC", "U+1D7DD", "U+1D7DE", "U+1D7DF", "U+1D7E0", "U+1D7E1">>,
      <<"U+1D7E2", "U+1D7E3", "U+1D7E4", "U+1D7E5", "U+1D7E6", "U+1D7E7", "U+1D7E8", "U+1D7E9", "U+1D7EA", "U+1D7EB">>,
      <<"U+1D7EC", "U+1D7ED", "U+1D7EE", "U+1D7EF", "U+1D7F0", "U+1D7F1", "U+1D7F2", "U+1D7F3", "U+1D7F4", "U+1D7F5">>,
      <<"U+1D7F6", "U+1D7F7", "U+1D7F8", "U+1D7F9", "U+1D7FA", "U+1D7FB", "U+1D7FC", "U+1D7FD", "U+1D7FE", "U+1D7FF">>,
      <<"U+1E140", "U+1E141", "U+1E142", "U+1E143", "U+1E144", "U+1E145", "U+1E146", "U+1E147", "U+1E148", "U+1E149">>,
      <<"U+1E2F0", "U+1E2F1", "U+1E2F2", "U+1E2F3", "U+1E2F4", "U+1E2F5", "U+1E2F6", "U+1E2F7", "U+1E2F8", "U+1E2F9">>,
      <<"U+1E950", "U+1E951", "U+1E952", "U+1E953", "U+1E954", "U+1E955", "U+1E956", "U+1E957", "U+1E958", "U+1E959">>,
      <<"U+1FBF0", "U+1FBF1", "U+1FBF2", "U+1FBF3", "U+1FBF4", "U+1FBF5", "U+1FBF6", "U+1FBF7", "U+1FBF8", "U+1FBF9">> >>

DecimalDigits == {DigitRows[r][i] : r \in 1..Len(DigitRows), i \in 1..10}

-----------------------------------------------------------------------------
(* int(text): characters that are spaces become blanks and decimal digits  *)
(* of any script their ASCII digit; surrounding whitespace is stripped,    *)
(* one optional ASCII sign, then digits in which single underscores may    *)
(* separate digits.                                                        *)

IsDigit(c) == c \in DecimalDigits

DigitValue(c) ==
    LET row == DigitRows[CHOOSE r \in 1..Len(DigitRows) : \E i \in 1..10 : DigitRows[r][i] = c]
    IN  (CHOOSE i \in 1..10 : row[i] = c) - 1

RECURSIVE LStrip(_)
LStrip(t) ==
    IF t # <<>> /\ Head(t) \in Whitespace THEN LStrip(Tail(t)) ELSE t

RECURSIVE RStrip(_)
RStrip(t) ==
    IF t # <<>> /\ t[Len(t)] \in Whitespace
    THEN RStrip(SubSeq(t, 1, Len(t) - 1))
    ELSE t

Strip(t) == RStrip(LStrip(t))

(* The number that the first n characters of t write *)
RECURSIVE DecimalValue(_, _)
DecimalValue(t, n) ==
    IF n = 0 THEN 0
    ELSE IF t[n] = "_" THEN DecimalValue(t, n - 1)
    ELSE 10 * DecimalValue(t, n - 1) + DigitValue(t[n])

ValidDecimal(t) ==
    /\ t # <<>>
    /\ \A i \in 1..Len(t) : IsDigit(t[i]) \/ t[i] = "_"
    /\ IsDigit(t[1])
    /\ IsDigit(t[Len(t)])
    /\ \A i \in 1..(Len(t) - 1) : ~(t[i] = "_" /\ t[i + 1] = "_")

(* sys.int_max_str_digits as the interpreter starts: int() refuses a text  *)
(* with more digits, the leading zeros counted and the underscores not.    *)
IntMaxStrDigits == 4300

DigitCount(t) == Cardinality({i \in 1..Len(t) : IsDigit(t[i])})

ParseInt(text) ==
    LET s == Strip(text)
        signed == s # <<>> /\ Head(s) \in {"+", "-"}
        body == IF signed THEN Tail(s) ELSE s
        mag == DecimalValue(body, Len(body))
    IN  IF ValidDecimal(body) /\ DigitCount(body) <= IntMaxStrDigits
        THEN [ok |-> TRUE, val |-> IF signed /\ Head(s) = "-" THEN 0 - mag ELSE mag]
        ELSE [ok |-> FALSE, val |-> 0]

-----------------------------------------------------------------------------
(* pathlib.Path on POSIX: a path is a root ("", "/" or "//") and the list  *)
(* of its components; empty and "." components are dropped, ".." is kept.  *)

(* The pieces of t between its slashes; a long text is split as its first  *)
(* half and its second, the piece across the middle joined again.          *)
RECURSIVE SplitSlash(_)
SplitSlash(t) ==
    IF Len(t) = 0 THEN <<<<>>>>
    ELSE IF Len(t) = 1 THEN (IF t[1] = "/" THEN <<<<>>, <<>>>> ELSE <<t>>)
    ELSE LET half == Len(t) \div 2
             l == CHOOSE x \in {SplitSlash(SubSeq(t, 1, half))} : TRUE
             r == CHOOSE x \in {SplitSlash(SubSeq(t, half + 1, Len(t)))} : TRUE
         IN  SubSeq(l, 1, Len(l) - 1) \o <<l[Len(l)] \o r[1]>> \o Tail(r)

LeadingSlashes(t) == Cardinality({i \in 1..Len(t) : \A j \in 1..i : t[j] = "/"})

KeepComponent(c) == c # <<>> /\ c # <<".">>

PathOf(text) ==
    LET n == LeadingSlashes(text)
    IN  [root |-> IF n = 0 THEN <<>> ELSE IF n = 2 THEN <<"/", "/">> ELSE <<"/">>,
         parts |-> SelectSeq(SplitSlash(text), KeepComponent)]

RECURSIVE JoinSlash(_)
JoinSlash(parts) ==
    IF parts = <<>> THEN <<>>
    ELSE IF Len(parts) = 1 THEN parts[1]
    ELSE LET half == Len(parts) \div 2
         IN  JoinSlash(SubSeq(parts, 1, half)) \o <<"/">>
                 \o JoinSlash(SubSeq(parts, half + 1, Len(parts)))

StrOf(p) ==
    IF p.root = <<>> /\ p.parts = <<>> THEN <<".">>
    ELSE p.root \o JoinSlash(p.parts)

(* p / seg: an absolute seg replaces p, a relative one adds its components *)
JoinPath(p, seg) ==
    LET q == PathOf(seg)
    IN  IF q.root # <<>> THEN q
        ELSE [root |-> p.root, parts |-> p.parts \o q.parts]

Parent(p) ==
    IF p.parts = <<>> THEN p
    ELSE [root |-> p.root, parts |-> SubSeq(p.parts, 1, Len(p.parts) - 1)]

PathHome == PathOf(TxtHome)

(* Characters that os.fsencode refuses (the filesystem encoding is UTF-8   *)
(* with surrogateescape): NUL and the surrogates outside U+DC80..U+DCFF.   *)
(* A path or an environment value holding one raises before any system    *)
(* call is made.                                                           *)
HexDigits == {"0", "1", "2", "3", "4", "5", "6", "7", "8", "9", "A", "B", "C", "D", "E", "F"}

HighHexDigits == {"8", "9", "A", "B", "C", "D", "E", "F"}

LoneSurrogates ==
    {"U+D" \o a \o b \o c : a \in HighHexDigits, b \in HexDigits, c \in HexDigits}
        \ {"U+DC" \o b \o c : b \in HighHexDigits, c \in HexDigits}

Unencodable == {NUL} \cup LoneSurrogates

HasUnencodable(text) == \E i \in 1..Len(text) : text[i] \in Unencodable

PathUnencodable(p) == \E i \in 1..Len(p.parts) : HasUnencodable(p.parts[i])

(* The number of bytes os.fsencode gives a character: one below U+0080 and *)
(* for an escaped byte U+DC80..U+DCFF, two below U+0800, three below       *)
(* U+10000, four above.                                                    *)
LowHexDigits == {"0", "1", "2", "3", "4", "5", "6", "7"}

OneByteChars ==
    {"U+00" \o b \o c : b \in LowHexDigits, c \in HexDigits}
        \cup {"U+DC" \o b \o c : b \in HighHexDigits, c \in HexDigits}

TwoByteChars ==
    {"U+0" \o a \o b \o c : a \in LowHexDigits, b \in HexDigits, c \in HexDigits}
        \ {"U+00" \o b \o c : b \in LowHexDigits, c \in HexDigits}

ByteLen(c) ==
    IF Len(c) = 1 \/ c \in OneByteChars THEN 1
    ELSE IF c \in TwoByteChars THEN 2
    ELSE IF Len(c) = 6 THEN 3
    ELSE 4

NameBytes(name) ==
    LET wide == CHOOSE w \in {{j \in 1..Len(name) : ByteLen(name[j]) >= 2}} : TRUE
    IN  Len(name) + Cardinality(wide)
                  + Cardinality({j \in wide : ByteLen(name[j]) >= 3})
                  + Cardinality({j \in wide : ByteLen(name[j]) >= 4})

(* The bytes of str(p) *)
PathBytes(p) == NameBytes(StrOf(p))

(* Linux limits: a component longer than NAME_MAX bytes, or a path of      *)
(* PATH_MAX bytes or more (the limit counts the terminating NUL), makes    *)
(* every system call on it fail with ENAMETOOLONG.  A character has at     *)
(* most four bytes, so a short text need not be counted.                   *)
NameMax == 255

PathMax == 4096

NameTooLong(name) == 4 * Len(name) > NameMax /\ NameBytes(name) > NameMax

PathTooLong(p) == 4 * Len(StrOf(p)) >= PathMax /\ PathBytes(p) >= PathMax

-----------------------------------------------------------------------------
(* The filesystem: the set of directories and the set of regular files,    *)
(* each named by its location, the components below the root.  The root    *)
(* always exists; the working directory of the process and the             *)
(* directories above it are directories of every filesystem.  A relative   *)
(* path is resolved from the working directory.  There are no symbolic     *)
(* links, the process may search and write every directory, and the        *)
(* filesystem does not run out of space.                                   *)

TxtCwd == <<"/", "w", "o", "r", "k", "/", "c", "w", "d", "/", "i", "n", "/", "h", "e", "r", "e">>

DotDot == <<".", ".">>

Root == [root |-> <<"/">>, parts |-> <<>>]

Cwd == [root |-> <<"/">>, parts |-> PathOf(TxtCwd).parts]

CwdDirs == {[root |-> <<"/">>, parts |-> SubSeq(Cwd.parts, 1, n)] : n \in 1..Len(Cwd.parts)}

Up(loc) ==
    IF loc.parts = <<>> THEN loc
    ELSE [loc EXCEPT !.parts = SubSeq(@, 1, Len(@) - 1)]

(* The entry called name in the directory at loc *)
Enter(loc, name) ==
    IF name = DotDot THEN Up(loc) ELSE [loc EXCEPT !.parts = Append(@, name)]

Kind(f, loc) ==
    IF loc.parts = <<>> \/ loc \in f.dirs THEN "dir"
    ELSE IF loc \in f.files THEN "file"
    ELSE "absent"

(* Path resolution as the kernel does it, from a directory loc along the   *)
(* components: "dir", "file" or "absent" for the last one, "noparent"      *)
(* (ENOENT) or "notdir" (ENOTDIR) when a component on the way is missing   *)
(* or is a regular file, "toolong" (ENAMETOOLONG) when the component       *)
(* looked up in a directory is longer than NAME_MAX.                       *)

(* The components on the way, each entered as a directory; a long way is   *)
(* walked as its first half and then its second.                           *)
RECURSIVE WalkDirs(_, _, _)
WalkDirs(f, loc, way) ==
    IF way = <<>> THEN [st |-> "dir", loc |-> loc]
    ELSE IF Len(way) = 1
    THEN LET nxt == Enter(loc, way[1])
             kind == Kind(f, nxt)
         IN  IF NameTooLong(way[1]) THEN [st |-> "toolong", loc |-> loc]
             ELSE [st |-> IF kind = "dir" THEN "dir"
                          ELSE IF kind = "file" THEN "notdir" ELSE "noparent",
                   loc |-> nxt]
    ELSE LET half == Len(way) \div 2
             onward(first) ==
                 IF first.st = "dir"
                 THEN WalkDirs(f, first.loc, SubSeq(way, half + 1, Len(way)))
                 ELSE first
         IN  onward(CHOOSE r \in {WalkDirs(f, loc, SubSeq(way, 1, half))} : TRUE)

Walk(f, loc, rest) ==
    IF rest = <<>> THEN [st |-> "dir", loc |-> loc]
    ELSE LET name == rest[Len(rest)]
             final(way) ==
                 IF way.st # "dir" THEN way
                 ELSE IF NameTooLong(name) THEN [st |-> "toolong", loc |-> way.loc]
                 ELSE [st |-> Kind(f, Enter(way.loc, name)), loc |-> Enter(way.loc, name)]
         IN  final(CHOOSE r \in {WalkDirs(f, loc, SubSeq(rest, 1, Len(rest) - 1))} : TRUE)

Status(f, p) ==
    LET start == IF p.root = <<>> THEN Cwd ELSE Root
    IN  IF PathTooLong(p) THEN [st |-> "toolong", loc |-> start]
        ELSE Walk(f, start, p.parts)

(* The location a path names when every component on the way is a         *)
(* directory                                                               *)
RECURSIVE Along(_, _)
Along(loc, rest) ==
    IF rest = <<>> THEN loc ELSE Along(Enter(loc, Head(rest)), Tail(rest))

Locate(p) == Along(IF p.root = <<>> THEN Cwd ELSE Root, p.parts)

(* Path.is_dir(), Path.is_file() and Path.exists(): "True" or "False", or  *)
(* "OSError" when os.stat raises an error other than ENOENT and ENOTDIR,   *)
(* which these methods pass on.  The ValueError of a path that cannot be   *)
(* encoded is answered with "False".                                       *)
StatAnswer(f, p, yes) ==
    LET answer(st) == IF st = "toolong" THEN "OSError"
                      ELSE IF st \in yes THEN "True" ELSE "False"
    IN  IF PathUnencodable(p) THEN "False" ELSE answer(Status(f, p).st)

IsDir(f, p) == StatAnswer(f, p, {"dir"})

IsFile(f, p) == StatAnswer(f, p, {"file"})

Exists(f, p) == StatAnswer(f, p, {"dir", "file"})

(* Path.mkdir(parents=True, exist_ok=True), one os.mkdir call per step.    *)
(* todo is the chain of pending calls, the innermost first; retry marks    *)
(* the second call of a path, made with parents=False after its parent     *)
(* was created.  A call that finds a directory in place passes; one that   *)
(* finds a regular file, on the way or in place, a character in the path   *)
(* that cannot be encoded, or a name that is too long, raises.             *)
MkdirStart(p) == <<[path |-> p, retry |-> FALSE]>>

MkdirStep(f, todo) ==
    LET p == Head(todo).path
        rest == Tail(todo)
        go(g, q) == [state |-> IF q = <<>> THEN "ok" ELSE "run", fs |-> g, todo |-> q]
        fail == [state |-> "raise", fs |-> f, todo |-> <<>>]
        call(at) ==
            IF PathUnencodable(p) \/ at.st = "toolong" THEN fail
            ELSE IF at.st = "dir" THEN go(f, rest)
            ELSE IF at.st = "absent" THEN go([f EXCEPT !.dirs = @ \cup {at.loc}], rest)
            ELSE IF at.st = "noparent" /\ ~Head(todo).retry /\ Parent(p) # p
            THEN go(f, <<[path |-> Parent(p), retry |-> FALSE],
                         [path |-> p, retry |-> TRUE]>> \o rest)
            ELSE fail
    IN  call(Status(f, p))

RECURSIVE MkdirRun(_, _)
MkdirRun(f, todo) ==
    LET after(r) == IF r.state = "run" THEN MkdirRun(r.fs, r.todo)
                    ELSE [ok |-> r.state = "ok", fs |-> r.fs]
    IN  after(MkdirStep(f, todo))

Mkdir(f, p) == MkdirRun(f, MkdirStart(p))

-----------------------------------------------------------------------------
(* The process environment table *)

EnvNames == {"HF_TOKEN", "HF_HOME", "API_PORT", "NUM_WORKERS"}

getenv(env, name) == env[name]

getenv_default_ignoring(env, name, default) == default

getenv_default(env, name, default) ==
    IF IsNone(env[name]) THEN default ELSE Val(env[name])

putenv_fails(text) == HasUnencodable(text)

-----------------------------------------------------------------------------
(* The three sub-records.  A constructor takes its path argument as an     *)
(* Optional (<<>> when the caller does not supply it) and the filesystem,  *)
(* and yields the instance, the filesystem afterwards and whether the       *)
(* construction returned or raised.                                         *)

DefaultCacheDir == JoinPath(JoinPath(PathHome, TxtCache), TxtHuggingface)

OutputDir(output_dir) == PathOf(IF IsNone(output_dir) THEN TxtOutputs ELSE Val(output_dir))

DataDir(data_dir) == PathOf(IF IsNone(data_dir) THEN TxtData ELSE Val(data_dir))

ModelConfig(cache_dir, f) ==
    [ok |-> TRUE,
     fs |-> f,
     inst |-> [cache_dir |-> IF IsNone(cache_dir) THEN DefaultCacheDir
                             ELSE Val(cache_dir)]]

TrainingConfig(output_dir, f) ==
    LET mk == Mkdir(f, OutputDir(output_dir))
    IN  [ok |-> mk.ok, fs |-> mk.fs, inst |-> [output_dir |-> OutputDir(output_dir)]]

DataConfig(data_dir, f) ==
    LET mk == Mkdir(f, DataDir(data_dir))
    IN  [ok |-> mk.ok, fs |-> mk.fs, inst |-> [data_dir |-> DataDir(data_dir)]]

-----------------------------------------------------------------------------
(* Settings(args), step by step.  The generated __init__ fills the fields  *)
(* in the order of their declaration, calling the default factory of each  *)
(* field that is not supplied, and then runs __post_init__.  A step is one *)
(* access to the environment or one os.mkdir call; the first step that     *)
(* raises ends the construction, and what was written before stays.        *)

NoArgs == [hf_token |-> <<>>, hf_home |-> <<>>, api_port |-> <<>>, num_workers |-> <<>>]

Truthy(token) == ~IsNone(token) /\ Val(token) # <<>>

(* The step that follows pc when pc returns *)
NextPc_eager(pc) ==
    CASE pc = "hf_token" -> "hf_home"
      [] pc = "hf_home" -> "model"
      [] pc = "model" -> "training"
      [] pc = "training" -> "data"
      [] pc = "data" -> "api_port"
      [] pc = "api_port" -> "num_workers"
      [] pc = "num_workers" -> "put_home"
      [] pc = "put_home" -> "mkdir_home"
      [] pc = "mkdir_home" -> "put_token"
      [] pc = "put_token" -> "done"

NextPc(pc) ==
    CASE pc = "hf_token" -> "hf_home"
      [] pc = "hf_home" -> "model"
      [] pc = "model" -> "training"
      [] pc = "training" -> "data"
      [] pc = "data" -> "api_port"
      [] pc = "api_port" -> "num_workers"
      [] pc = "num_workers" -> "mkdir_home"
      [] pc = "mkdir_home" -> "put_home"
      [] pc = "put_home" -> "put_token"
      [] pc = "put_token" -> "done"

BlankSettings ==
    [id |-> 0, hf_token |-> None, hf_home |-> PathOf(<<>>),
     model |-> [cache_dir |-> PathOf(<<>>)],
     training |-> [output_dir |-> PathOf(<<>>)],
     data |-> [data_dir |-> PathOf(<<>>)],
     api_port |-> 0, num_workers |-> 0]

SettingsStart(args) ==
    [pc |-> "hf_token", args |-> args, todo |-> <<>>, cause |-> "", self |-> BlankSettings]

WriteToken_setdefault(token, env) ==
    IF Truthy(token) /\ IsNone(env["HF_TOKEN"])
    THEN [env EXCEPT !["HF_TOKEN"] = Some(Val(token))]
    ELSE env

WriteToken(token, env) ==
    IF Truthy(token) THEN [env EXCEPT !["HF_TOKEN"] = Some(Val(token))] ELSE env

IntField_fallback(arg, env, name, default) ==
    IF IsNone(arg)
    THEN LET parsed == ParseInt(getenv_default(env, name, default))
         IN  IF parsed.ok THEN parsed ELSE ParseInt(default)
    ELSE [ok |-> TRUE, val |-> Val(arg)]

IntField(arg, env, name, default) ==
    IF IsNone(arg) THEN ParseInt(getenv_default(env, name, default))
    ELSE [ok |-> TRUE, val |-> Val(arg)]

Advance(c, self, id) ==
    LET pc == NextPc(c.pc)
    IN  [c EXCEPT !.pc = pc, !.todo = <<>>,
                  !.self = IF pc = "done" THEN [self EXCEPT !.id = id] ELSE self]

Abort(c, cause) == [c EXCEPT !.pc = "raised", !.cause = cause, !.todo = <<>>]

MkdirPhase(c, env, f, id, dir, cause) ==
    LET after(r) ==
            [environ |-> env,
             fs |-> r.fs,
             c |-> IF r.state = "run" THEN [c EXCEPT !.todo = r.todo]
                   ELSE IF r.state = "ok" THEN Advance(c, c.self, id)
                   ELSE Abort(c, cause)]
    IN  after(MkdirStep(f, IF c.todo = <<>> THEN MkdirStart(dir) ELSE c.todo))

IntPhase(c, env, f, id, field, cause) ==
    [environ |-> env,
     fs |-> f,
     c |-> IF field.ok
           THEN Advance(c, IF cause = "API_PORT"
                           THEN [c.self EXCEPT !.api_port = field.val]
                           ELSE [c.self EXCEPT !.num_workers = field.val], id)
           ELSE Abort(c, cause)]

SettingsStep(c, env, f, id) ==
    LET keep(d) == [environ |-> env, fs |-> f, c |-> d]
        self == c.self
    IN  CASE c.pc = "hf_token" ->
               keep(Advance(c, [self EXCEPT !.hf_token =
                      IF IsNone(c.args.hf_token) THEN getenv(env, "HF_TOKEN")
                      ELSE Val(c.args.hf_token)], id))
          [] c.pc = "hf_home" ->
               keep(Advance(c, [self EXCEPT !.hf_home =
                      PathOf(IF IsNone(c.args.hf_home)
                             THEN getenv_default(env, "HF_HOME", StrOf(DefaultCacheDir))
                             ELSE Val(c.args.hf_home))], id))
          [] c.pc = "model" ->
               keep(Advance(c, [self EXCEPT !.model = ModelConfig(None, f).inst], id))
          [] c.pc = "training" ->
               MkdirPhase([c EXCEPT !.self.training = [output_dir |-> OutputDir(None)]],
                          env, f, id, OutputDir(None), "training.output_dir")
          [] c.pc = "data" ->
               MkdirPhase([c EXCEPT !.self.data = [data_dir |-> DataDir(None)]],
                          env, f, id, DataDir(None), "data.data_dir")
          [] c.pc = "api_port" ->
               IntPhase(c, env, f, id,
                        IntField(c.args.api_port, env, "API_PORT", Txt8000), "API_PORT")
          [] c.pc = "num_workers" ->
               IntPhase(c, env, f, id,
                        IntField(c.args.num_workers, env, "NUM_WORKERS", Txt4), "NUM_WORKERS")
          [] c.pc = "mkdir_home" ->
               MkdirPhase(c, env, f, id, self.hf_home, "hf_home")
          [] c.pc = "put_home" ->
               IF putenv_fails(StrOf(self.hf_home)) THEN keep(Abort(c, "HF_HOME"))
               ELSE [environ |-> [env EXCEPT !["HF_HOME"] = Some(StrOf(self.hf_home))],
                     fs |-> f, c |-> Advance(c, self, id)]
          [] c.pc = "put_token" ->
               IF Truthy(self.hf_token) /\ putenv_fails(Val(self.hf_token))
               THEN keep(Abort(c, "HF_TOKEN"))
               ELSE [environ |-> WriteToken(self.hf_token, env),
                     fs |-> f, c |-> Advance(c, self, id)]

Running(c) == c.pc \notin {"done", "raised"}

(* The steps from r on, to the end of the construction; next is what the   *)
(* step at r leaves.                                                       *)
RECURSIVE SettingsRun(_, _)
SettingsRun(r, id) ==
    IF Running(r.c)
    THEN LET next == CHOOSE n \in {SettingsStep(r.c, r.environ, r.fs, id)} : TRUE
         IN  SettingsRun(next, id)
    ELSE [outcome |-> IF r.c.pc = "done" THEN "return" ELSE "raise",
          cause |-> r.c.cause,
          inst |-> IF r.c.pc = "done" THEN Some(r.c.self) ELSE None,
          environ |-> r.environ, fs |-> r.fs]

(* The whole construction, as one thread runs it *)
Settings(args, env, f, id) ==
    SettingsRun([c |-> SettingsStart(args), environ |-> env, fs |-> f], id)

-----------------------------------------------------------------------------
(* The provider: get_settings(reload) and load_settings_from_env().        *)
(* A construction that raises leaves before the assignment to _settings.   *)

NeedsConstruction_always(slot, reload) == TRUE

NeedsConstruction_once(slot, reload) == IsNone(slot)

NeedsConstruction(slot, reload) == IsNone(slot) \/ reload

SlotAfter_keep_first(slot, made) == IF IsNone(slot) THEN made ELSE slot

SlotAfter(slot, made) == made

SlotOnRaise_cleared(slot) == None

SlotOnRaise(slot) == slot

Call(op, args, outcome, cause, ret) ==
    [op |-> op, args |-> args, outcome |-> outcome, cause |-> cause, ret |-> ret,
     before |-> [environ |-> environ, fs |-> fs, _settings |-> _settings,
                 allocated |-> allocated, pinned |-> pinned]]

get_settings(op, reload) ==
    IF NeedsConstruction(_settings, reload)
    THEN /\ allocated < MaxInstances
         /\ LET assign(made) ==
                    /\ environ' = made.environ
                    /\ fs' = made.fs
                    /\ IF made.outcome = "return"
                       THEN /\ _settings' = SlotAfter(_settings, made.inst)
                            /\ allocated' = allocated + 1
                            /\ last' = Call(op, reload, "return", "", made.inst)
                       ELSE /\ _settings' = SlotOnRaise(_settings)
                            /\ UNCHANGED allocated
                            /\ last' = Call(op, reload, "raise", made.cause, None)
            IN  assign(Settings(NoArgs, environ, fs, allocated + 1))
    ELSE /\ last' = Call(op, reload, "return", "", _settings)
         /\ UNCHANGED <<environ, fs, _settings, allocated>>

GetSettings(reload) ==
    /\ get_settings("get_settings", reload)
    /\ UNCHANGED <<pinned, external, threads, script>>

LoadSettingsFromEnv ==
    /\ get_settings("load_settings_from_env", TRUE)
    /\ UNCHANGED <<pinned, external, threads, script>>

-----------------------------------------------------------------------------
(* A caller constructing a Settings directly, with explicit arguments.     *)
(* pinned remembers, per variable, the explicit value that the latest      *)
(* successful construction wrote to the environment; it is forgotten when  *)
(* a direct construction changes that variable in any other way.           *)

PinnedAfter(args, made) ==
    [hf_home |->
        IF made.outcome = "return" /\ ~IsNone(args.hf_home)
        THEN Some(Val(made.inst).hf_home)
        ELSE IF made.environ["HF_HOME"] # environ["HF_HOME"] THEN None
        ELSE pinned.hf_home,
     hf_token |->
        IF made.outcome = "return" /\ ~IsNone(args.hf_token) /\ Truthy(Val(args.hf_token))
        THEN Val(args.hf_token)
        ELSE IF made.environ["HF_TOKEN"] # environ["HF_TOKEN"] THEN None
        ELSE pinned.hf_token]

SettingsCall(args) ==
    /\ allocated < MaxInstances
    /\ LET finish(made) ==
               /\ environ' = made.environ
               /\ fs' = made.fs
               /\ allocated' = IF made.outcome = "return" THEN allocated + 1 ELSE allocated
               /\ last' = Call("Settings", args, made.outcome, made.cause, made.inst)
               /\ pinned' = PinnedAfter(args, made)
       IN  finish(Settings(args, environ, fs, allocated + 1))
    /\ UNCHANGED <<_settings, external, threads, script>>

-----------------------------------------------------------------------------
(* Inputs: the environment and the filesystem the process starts with, and *)
(* the explicit arguments callers pass.                                    *)

TxtAbc123 == <<"a", "b", "c", "1", "2", "3">>

TxtXyz == <<"x", "y", "z">>

TxtNulToken == <<"x", NUL>>

TxtSlashH == <<"/", "h", "/">>

TxtH == <<"/", "h">>

TxtGC == <<"g", "/", ".", "/", ".", ".", "/", "c", "/">>

TxtNulHome == <<"/", "h", "/", NUL>>

(* A directory name one byte longer than a directory entry can be *)
TxtLongHome == [i \in 1..(NameMax + 1) |-> "h"]

TxtNotANumber == <<"n", "o", "t", "-", "a", "-", "n", "u", "m", "b", "e", "r">>

TxtSpaced80 == <<"\r", "\n", "8", "_", "0", "\f", "U+2003">>

TxtArabicThree == <<"U+0663">>

Txt4p5 == <<"4", ".", "5">>

EnvOf(tok, home, port, workers) ==
    [n \in EnvNames |->
        CASE n = "HF_TOKEN" -> tok
          [] n = "HF_HOME" -> home
          [] n = "API_PORT" -> port
          [] n = "NUM_WORKERS" -> workers]

EnvInits ==
    { EnvOf(None, None, None, None),
      EnvOf(Some(<<>>), Some(TxtSlashH), None, None),
      EnvOf(Some(TxtAbc123), Some(TxtSlashH), None, Some(TxtArabicThree)),
      EnvOf(Some(TxtAbc123), None, Some(TxtSpaced80), None),
      EnvOf(None, None, Some(TxtNotANumber), Some(Txt4p5)) }

BaseDirs == CwdDirs \cup {Locate(PathOf(<<"/", "h", "o", "m", "e">>)), Locate(PathHome)}

BlockablePaths ==
    {Locate(PathOf(TxtOutputs)), Locate(PathOf(TxtData)), Locate(PathOf(TxtH))}

FsInits ==
    { [dirs |-> BaseDirs, files |-> blocked] :
      blocked \in {S \in SUBSET BlockablePaths : Cardinality(S) <= 1} }

Args(tok, home, port, workers) ==
    [hf_token |-> tok, hf_home |-> home, api_port |-> port, num_workers |-> workers]

ArgChoices ==
    { NoArgs,
      Args(<<Some(TxtXyz)>>, <<TxtH>>, <<>>, <<>>),
      Args(<<Some(<<>>)>>, <<>>, <<>>, <<>>),
      Args(<<None>>, <<TxtGC>>, <<9000>>, <<1>>),
      Args(<<Some(TxtNulToken)>>, <<TxtH>>, <<>>, <<>>),
      Args(<<Some(TxtXyz)>>, <<TxtNulHome>>, <<>>, <<>>) }

-----------------------------------------------------------------------------
(* The embedding program changing the process environment between calls:   *)
(* os.environ[name] = value, or del os.environ[name] when value is None.   *)
(* What it does before the first construction is part of the environment   *)
(* the process starts with.                                                *)

EnvironChoices ==
    { <<"API_PORT", Some(TxtNotANumber)>>, <<"NUM_WORKERS", Some(Txt4p5)>>,
      <<"HF_HOME", Some(TxtSlashH)>>, <<"HF_HOME", Some(TxtLongHome)>>,
      <<"HF_TOKEN", None>> }

EnvironSet(name, value) ==
    /\ external < MaxExternal
    /\ allocated > 0
    /\ external' = external + 1
    /\ environ' = [environ EXCEPT ![name] = value]
    /\ last' = Call("os.environ", <<name, value>>, "return", "", None)
    /\ pinned' = [hf_home |-> IF name = "HF_HOME" THEN None ELSE pinned.hf_home,
                  hf_token |-> IF name = "HF_TOKEN" THEN None ELSE pinned.hf_token]
    /\ UNCHANGED <<fs, _settings, allocated, threads, script>>

-----------------------------------------------------------------------------
(* The provider and direct construction in one single-threaded process     *)

NoCall ==
    [op |-> "import", args |-> None, outcome |-> "", cause |-> "", ret |-> None,
     before |-> None]

NoPin == [hf_home |-> None, hf_token |-> None]

Init ==
    /\ environ \in EnvInits
    /\ fs \in FsInits
    /\ _settings = None
    /\ allocated = 0
    /\ last = NoCall
    /\ pinned = NoPin
    /\ external = 0
    /\ threads = <<>>
    /\ script = <<>>

Next ==
    \/ \E reload \in BOOLEAN : GetSettings(reload)
    \/ LoadSettingsFromEnv
    \/ \E args \in ArgChoices : SettingsCall(args)
    \/ \E c \in EnvironChoices : EnvironSet(c[1], c[2])

Spec == Init /\ [][Next]_vars

-----------------------------------------------------------------------------
(* The three sub-records constructed on their own                          *)

TxtOutRun == <<"o", "u", "t", "/", "r", "u", "n", "1">>

SubRecordCall(op, arg, made) ==
    /\ fs' = made.fs
    /\ last' = Call(op, arg, IF made.ok THEN "return" ELSE "raise",
                    IF made.ok THEN "" ELSE "mkdir",
                    IF made.ok THEN Some(made.inst) ELSE None)
    /\ UNCHANGED <<environ, _settings, allocated, pinned, external, threads, script>>

ModelConfigCall(cache_dir) ==
    SubRecordCall("ModelConfig", cache_dir, ModelConfig(cache_dir, fs))

TrainingConfigCall(output_dir) ==
    SubRecordCall("TrainingConfig", output_dir, TrainingConfig(output_dir, fs))

DataConfigCall(data_dir) ==
    SubRecordCall("DataConfig", data_dir, DataConfig(data_dir, fs))

InitConfig ==
    /\ environ = EnvOf(None, None, None, None)
    /\ fs \in FsInits
    /\ _settings = None
    /\ allocated = 0
    /\ last = NoCall
    /\ pinned = NoPin
    /\ external = 0
    /\ threads = <<>>
    /\ script = <<>>

NextConfig ==
    \/ \E cache_dir \in {None, Some(PathOf(TxtH))} : ModelConfigCall(cache_dir)
    \/ \E output_dir \in {None, Some(TxtOutRun), Some(TxtH)} : TrainingConfigCall(output_dir)
    \/ \E data_dir \in {None, Some(TxtGC)} : DataConfigCall(data_dir)

SpecConfig == InitConfig /\ [][NextConfig]_vars

-----------------------------------------------------------------------------
(* Two threads calling get_settings with no lock around the slot.  A thread *)
(* can be preempted between reading the slot for the test, any two steps   *)
(* of Settings(), the assignment to the slot and the read of the slot for  *)
(* the return.  The steps of Settings() are those of SettingsStep: each    *)
(* reads or writes the environment once or makes one os.mkdir call.        *)

ThreadIds == {1, 2}

IdleThread ==
    [pc |-> "idle", reload |-> FALSE, saw |-> None, c |-> SettingsStart(NoArgs),
     made |-> None, ret |-> None]

ThreadCall(t, reload) ==
    /\ threads[t].pc = "idle"
    /\ threads' = [threads EXCEPT ![t].pc = "test", ![t].reload = reload]
    /\ UNCHANGED <<environ, fs, _settings, allocated, last, pinned, external, script>>

ThreadTest(t) ==
    /\ threads[t].pc = "test"
    /\ threads' = [threads EXCEPT
          ![t].saw = _settings,
          ![t].pc = IF NeedsConstruction(_settings, threads[t].reload)
                    THEN "construct" ELSE "return"]
    /\ UNCHANGED <<environ, fs, _settings, allocated, last, pinned, external, script>>

ThreadConstruct(t) ==
    /\ threads[t].pc = "construct"
    /\ LET r == SettingsStep(threads[t].c, environ, fs, allocated + 1)
           pc == r.c.pc
       IN  /\ environ' = r.environ
           /\ fs' = r.fs
           /\ allocated' = IF pc = "done" THEN allocated + 1 ELSE allocated
           /\ threads' = [threads EXCEPT
                 ![t].c = r.c,
                 ![t].made = IF pc = "done" THEN Some(r.c.self) ELSE None,
                 ![t].pc = IF pc = "done" THEN "store"
                           ELSE IF pc = "raised" THEN "raised" ELSE "construct"]
    /\ UNCHANGED <<_settings, last, pinned, external, script>>

ThreadStore(t) ==
    /\ threads[t].pc = "store"
    /\ _settings' = SlotAfter(_settings, threads[t].made)
    /\ last' = Call("store", t, "return", "", threads[t].made)
    /\ threads' = [threads EXCEPT ![t].pc = "return"]
    /\ UNCHANGED <<environ, fs, allocated, pinned, external, script>>

ThreadReturn(t) ==
    /\ threads[t].pc = "return"
    /\ threads' = [threads EXCEPT ![t].ret = _settings, ![t].pc = "done"]
    /\ UNCHANGED <<environ, fs, _settings, allocated, last, pinned, external, script>>

InitThreads ==
    /\ environ \in EnvInits
    /\ fs \in FsInits
    /\ _settings = None
    /\ allocated = 0
    /\ last = NoCall
    /\ pinned = NoPin
    /\ external = 0
    /\ threads = [t \in ThreadIds |-> IdleThread]
    /\ script = <<>>

NextThreads ==
    \E t \in ThreadIds :
        \/ \E reload \in BOOLEAN : ThreadCall(t, reload)
        \/ ThreadTest(t)
        \/ ThreadConstruct(t)
        \/ ThreadStore(t)
        \/ ThreadReturn(t)

SpecThreads == InitThreads /\ [][NextThreads]_vars

-----------------------------------------------------------------------------
(* scripts/generate_diagrams.py.  The inputs are what mmdc --version does, *)
(* the arguments --file, --input-dir, --output-dir and --formats, and the  *)
(* filesystem the script starts in.  Each run of mmdc for an output        *)
(* returns 0 and leaves the output file ("ok"), returns non-zero           *)
(* (CalledProcessError, caught: "failed") or cannot be run ("raised"); an  *)
(* exception that main() does not catch ends the interpreter with status 1.*)

check_mermaid_cli(cli) == cli = "ok"

Entries(f) == f.dirs \cup f.files

ChildNames(f, loc) ==
    { e.parts[Len(e.parts)] :
        e \in { d \in Entries(f) :
                  /\ d.parts # <<>>
                  /\ SubSeq(d.parts, 1, Len(d.parts) - 1) = loc.parts } }

Child(p, name) == [p EXCEPT !.parts = Append(@, name)]

IsMmdName(name) ==
    Len(name) >= 4 /\ SubSeq(name, Len(name) - 3, Len(name)) = <<".", "m", "m", "d">>

(* The orders in which scandir can list a set of entries *)
Orders(S) ==
    { s \in [1..Cardinality(S) -> S] : \A i, j \in 1..Cardinality(S) : i # j => s[i] # s[j] }

(* directory.rglob("*.mmd"): the entries of the directory named *.mmd,     *)
(* then those of each directory below it, depth first; nothing when the    *)
(* path is not a directory.  The result is the set of lists the call can   *)
(* return.  The call raises when is_dir() of the directory raises, or when *)
(* the scan of a directory below it does because its path is too long.     *)
RECURSIVE RglobRaises(_, _)
RglobRaises(f, p) ==
    \/ IsDir(f, p) = "OSError"
    \/ /\ IsDir(f, p) = "True"
       /\ \E n \in ChildNames(f, Status(f, p).loc) :
              /\ Kind(f, Child(Status(f, p).loc, n)) = "dir"
              /\ RglobRaises(f, Child(p, n))

RECURSIVE Rglob(_, _), RglobEach(_, _)
Rglob(f, p) ==
    IF IsDir(f, p) # "True" THEN {<<>>}
    ELSE LET loc == Status(f, p).loc
             names == ChildNames(f, loc)
             hits == {Child(p, n) : n \in {m \in names : IsMmdName(m)}}
             subs == {Child(p, n) : n \in {m \in names : Kind(f, Child(loc, m)) = "dir"}}
         IN  { own \o below :
                 own \in Orders(hits),
                 below \in UNION {RglobEach(f, o) : o \in Orders(subs)} }

RglobEach(f, dirs) ==
    IF Len(dirs) = 0 THEN {<<>>}
    ELSE { a \o b : a \in Rglob(f, dirs[1]),
                    b \in RglobEach(f, [i \in 1..(Len(dirs) - 1) |-> dirs[i + 1]]) }

find_mermaid_files(f, directory) ==
    IF RglobRaises(f, directory) THEN [outcome |-> "raise", lists |-> {}]
    ELSE [outcome |-> "return", lists |-> Rglob(f, directory)]

Name(p) == IF p.parts = <<>> THEN <<>> ELSE p.parts[Len(p.parts)]

Stem(name) ==
    LET dots == {i \in 1..Len(name) : name[i] = "."}
        i == CHOOSE d \in dots : \A e \in dots : e <= d
    IN  IF dots # {} /\ 1 < i /\ i < Len(name) THEN SubSeq(name, 1, i - 1) ELSE name

OutputFile(input_file, output_dir, format) ==
    JoinPath(output_dir, Stem(Name(input_file)) \o <<".">> \o format)

(* generate_diagram(input_file, output_dir, format); mmdc is what the run *)
(* of mmdc does.                                                          *)
generate_diagram(f, input_file, output_dir, format, mmdc) ==
    LET mk == Mkdir(f, output_dir)
        out == Status(mk.fs, OutputFile(input_file, output_dir, format))
    IN  IF ~mk.ok THEN [result |-> "raised", fs |-> mk.fs]
        ELSE IF mmdc = "ok" /\ out.st = "absent"
        THEN [result |-> "ok", fs |-> [mk.fs EXCEPT !.files = @ \cup {out.loc}]]
        ELSE [result |-> mmdc, fs |-> mk.fs]

FinalExit_zero_only(success_count, total_count) ==
    IF success_count = 0 THEN 1 ELSE 0

FinalExit(success_count, total_count) ==
    IF success_count < total_count THEN 1 ELSE 0

TxtDocs == <<"d", "o", "c", "s">>

TxtMermaid == <<"d", "o", "c", "s", "/", "m", "e", "r", "m", "a", "i", "d">>

TxtDiagrams == <<"d", "o", "c", "s", "/", "d", "i", "a", "g", "r", "a", "m", "s">>

TxtBlocker == <<"b", "l", "o", "c", "k", "e", "r">>

TxtBlockerMermaid == TxtBlocker \o <<"/", "m", "e", "r", "m", "a", "i", "d">>

TxtBlockerOut == TxtBlocker \o <<"/", "o", "u", "t">>

(* A name one byte longer than a directory entry can be *)
TxtLongName == [i \in 1..(NameMax + 1) |-> "x"]

TxtMermaidLong == TxtMermaid \o <<"/">> \o TxtLongName

TxtDiagramsLong == TxtDiagrams \o <<"/">> \o TxtLongName

TxtFirstMmd == TxtMermaid \o <<"/", "d", "1", ".", "v", "2", ".", "m", "m", "d">>

(* The k-th .mmd file: d<k>.v2.mmd, in docs/mermaid for odd k and in       *)
(* docs/mermaid/sub for even k                                             *)
MmdFile(k) ==
    JoinPath(JoinPath(PathOf(TxtMermaid), IF k % 2 = 1 THEN <<>> ELSE <<"s", "u", "b">>),
             <<"d", DigitRows[1][k + 1], ".", "v", "2", ".", "m", "m", "d">>)

DiagramFs(k) ==
    [dirs |-> CwdDirs \cup {Locate(PathOf(TxtDocs)), Locate(PathOf(TxtMermaid))}
                \cup (IF k >= 2 THEN {Locate(Parent(MmdFile(2)))} ELSE {}),
     files |-> {Locate(PathOf(TxtBlocker)),
                Locate(JoinPath(PathOf(TxtMermaid), <<"n", ".", "m", "d">>))}
                \cup {Locate(MmdFile(i)) : i \in 1..k}]

DiagramFsInits ==
    {[dirs |-> CwdDirs, files |-> {Locate(PathOf(TxtBlocker))}]} \cup {DiagramFs(k) : k \in 0..MaxFiles}

ScriptInputs ==
    [cli : {"ok", "nonzero", "missing"},
     file : {None, Some(TxtFirstMmd)},
     input_dir : {TxtMermaid, TxtBlockerMermaid, TxtBlocker, TxtMermaidLong},
     output_dir : {TxtDiagrams, TxtBlockerOut, TxtDiagramsLong},
     formats : {<<"pdf">>, <<"svg", "png">>}]

Format(name) ==
    CASE name = "pdf" -> <<"p", "d", "f">>
      [] name = "png" -> <<"p", "n", "g">>
      [] name = "svg" -> <<"s", "v", "g">>

ScriptStart(in) ==
    [pc |-> "check", in |-> in, mermaid_files |-> <<>>, done |-> 0, results |-> <<>>,
     success_count |-> 0, total_count |-> 0, exit |-> None]

Exit(code) == [script EXCEPT !.pc = "exited", !.exit = Some(code)]

MainCheck ==
    /\ script.pc = "check"
    /\ script' = IF check_mermaid_cli(script.in.cli)
                 THEN [script EXCEPT !.pc = "find"]
                 ELSE Exit(1)
    /\ UNCHANGED <<environ, fs, _settings, allocated, last, pinned, external, threads>>

Loop(files) ==
    IF files = <<>> THEN Exit(0)
    ELSE [script EXCEPT !.pc = "generate", !.mermaid_files = files,
                        !.success_count = 0,
                        !.total_count = Len(files) * Len(script.in.formats)]

MainFind ==
    /\ script.pc = "find"
    /\ LET file == script.in.file
           input_dir == PathOf(script.in.input_dir)
           there == Exists(fs, input_dir)
           mk == IF there = "True" THEN [ok |-> TRUE, fs |-> fs]
                 ELSE IF there = "OSError" THEN [ok |-> FALSE, fs |-> fs]
                 ELSE Mkdir(fs, input_dir)
           found == find_mermaid_files(mk.fs, input_dir)
       IN  IF ~IsNone(file)
           THEN /\ script' = IF Exists(fs, PathOf(Val(file))) = "True"
                             THEN Loop(<<PathOf(Val(file))>>) ELSE Exit(1)
                /\ fs' = fs
           ELSE /\ fs' = mk.fs
                /\ IF mk.ok /\ found.outcome = "return"
                   THEN \E files \in found.lists : script' = Loop(files)
                   ELSE script' = Exit(1)
    /\ UNCHANGED <<environ, _settings, allocated, last, pinned, external, threads>>

MainGenerate(mmdc) ==
    /\ script.pc = "generate"
    /\ script.done < script.total_count
    /\ LET formats == script.in.formats
           mermaid_file == script.mermaid_files[(script.done \div Len(formats)) + 1]
           fmt == formats[(script.done % Len(formats)) + 1]
           run == generate_diagram(fs, mermaid_file, PathOf(script.in.output_dir),
                                   Format(fmt), mmdc)
       IN  /\ fs' = run.fs
           /\ script' =
                IF run.result = "raised"
                THEN [Exit(1) EXCEPT !.results = Append(@, run.result)]
                ELSE [script EXCEPT
                        !.done = @ + 1,
                        !.results = Append(@, run.result),
                        !.success_count = IF run.result = "ok" THEN @ + 1 ELSE @]
    /\ UNCHANGED <<environ, _settings, allocated, last, pinned, external, threads>>

MainFinish ==
    /\ script.pc = "generate"
    /\ script.done = script.total_count
    /\ script' = Exit(FinalExit(script.success_count, script.total_count))
    /\ UNCHANGED <<environ, fs, _settings, allocated, last, pinned, external, threads>>

InitDiagram ==
    /\ environ = EnvOf(None, None, None, None)
    /\ fs \in DiagramFsInits
    /\ _settings = None
    /\ allocated = 0
    /\ last = NoCall
    /\ pinned = NoPin
    /\ external = 0
    /\ threads = <<>>
    /\ script \in {ScriptStart(in) : in \in ScriptInputs}

NextDiagram ==
    \/ MainCheck
    \/ MainFind
    \/ \E mmdc \in {"ok", "failed", "raised"} : MainGenerate(mmdc)
    \/ MainFinish

SpecDiagram == InitDiagram /\ [][NextDiagram]_vars

-----------------------------------------------------------------------------
(* Vocabulary of the properties: what the latest call was and what it did  *)

ProviderCall == last.op \in {"get_settings", "load_settings_from_env"}

PlainGet == last.op = "get_settings" /\ last.args = FALSE

Reloading == ProviderCall /\ last.args = TRUE

Constructing ==
    \/ last.op = "Settings"
    \/ ProviderCall /\ (last.args = TRUE \/ IsNone(last.before._settings))

Returned == last.outcome = "return"

RaisedCall == last.outcome = "raise"

ArgsOfCall == IF last.op = "Settings" THEN last.args ELSE NoArgs

Built == Val(last.ret)

-----------------------------------------------------------------------------
(* C1: a get_settings() call without reload returns the instance held in   *)
(* the slot; it constructs one only when the slot was uninitialised, and   *)
(* otherwise returns the stored object and leaves slot, environment and    *)
(* filesystem alone, so that consecutive calls return the same object.     *)
C1_PlainGetReturnsStored ==
    (PlainGet /\ Returned) =>
        /\ ~IsNone(last.ret)
        /\ _settings = last.ret
        /\ IF IsNone(last.before._settings)
           THEN /\ allocated = last.before.allocated + 1
                /\ Built.id = allocated
           ELSE /\ last.ret = last.before._settings
                /\ allocated = last.before.allocated
                /\ environ = last.before.environ
                /\ fs = last.before.fs

C1_Witness ==
    /\ PlainGet /\ Returned
    /\ ~IsNone(last.before._settings)
    /\ last.ret = last.before._settings
    /\ allocated = 2

(* C2: a successful get_settings(reload=True) or load_settings_from_env()  *)
(* returns an instance whose identity differs from that of every instance  *)
(* constructed before the call, and stores it in the slot.                 *)
C2_ReloadReturnsFresh ==
    (Reloading /\ Returned) =>
        /\ ~IsNone(last.ret)
        /\ Built.id \notin 1..last.before.allocated
        /\ (~IsNone(last.before._settings) => Built.id # Val(last.before._settings).id)
        /\ _settings = last.ret
        /\ allocated = last.before.allocated + 1

C2_Witness ==
    /\ last.op = "load_settings_from_env" /\ Returned
    /\ ~IsNone(last.before._settings)
    /\ Built.id = 2
    /\ Val(last.before._settings).id = 1

(* C3: when the construction inside a provider call raises, the call       *)
(* raises and the slot holds what it held before the call.                 *)
C3_FailedCallKeepsSlot ==
    (ProviderCall /\ RaisedCall) =>
        /\ IsNone(last.ret)
        /\ _settings = last.before._settings
        /\ allocated = last.before.allocated

C3_Witness ==
    /\ Reloading /\ RaisedCall
    /\ last.cause = "hf_home"
    /\ last.before.environ["HF_HOME"] = Some(TxtLongHome)
    /\ ~IsNone(_settings)
    /\ _settings = last.before._settings

(* C4 as stated: after a successful construction HF_HOME equals the        *)
(* resolved hf_home and, whenever hf_token is not None, HF_TOKEN equals    *)
(* hf_token.                                                               *)
C4_AsStated ==
    (Constructing /\ Returned) =>
        /\ environ["HF_HOME"] = Some(StrOf(Built.hf_home))
        /\ (~IsNone(Built.hf_token) => environ["HF_TOKEN"] = Built.hf_token)

(* C4 amended: after a successful construction HF_HOME equals the resolved *)
(* hf_home and, whenever hf_token is a non-empty string, HF_TOKEN equals   *)
(* hf_token, also when the value was passed explicitly and differs from    *)
(* the environment.                                                        *)
C4_EnvReflectsNonEmptyToken ==
    (Constructing /\ Returned) =>
        /\ environ["HF_HOME"] = Some(StrOf(Built.hf_home))
        /\ (Truthy(Built.hf_token) => environ["HF_TOKEN"] = Built.hf_token)

C4_Witness ==
    /\ last.op = "Settings" /\ Returned
    /\ last.args.hf_token = <<Some(TxtXyz)>>
    /\ last.args.hf_home = <<TxtH>>
    /\ last.before.environ["HF_TOKEN"] = Some(TxtAbc123)
    /\ last.before.environ["HF_HOME"] = None
    /\ environ["HF_TOKEN"] = Some(TxtXyz)
    /\ environ["HF_HOME"] = Some(TxtH)

(* C6: with non-integer text in API_PORT and no explicit api_port, the     *)
(* construction raises and produces no instance.                           *)
C6_BadPortFails ==
    (/\ Constructing
     /\ IsNone(ArgsOfCall.api_port)
     /\ ~IsNone(last.before.environ["API_PORT"])
     /\ ~ParseInt(Val(last.before.environ["API_PORT"])).ok)
    => /\ RaisedCall
       /\ IsNone(last.ret)
       /\ allocated = last.before.allocated
       /\ _settings = last.before._settings

C6_Witness ==
    /\ Constructing /\ RaisedCall
    /\ last.cause = "API_PORT"
    /\ last.before.environ["API_PORT"] = Some(TxtNotANumber)

(* The hf_home a construction asks for: the argument, else HF_HOME, else   *)
(* {home}/.cache/huggingface                                               *)
RequestedHome ==
    PathOf(IF IsNone(ArgsOfCall.hf_home)
           THEN getenv_default(last.before.environ, "HF_HOME", StrOf(DefaultCacheDir))
           ELSE Val(ArgsOfCall.hf_home))

(* C9 as stated: every construction that raises leaves HF_HOME and         *)
(* HF_TOKEN as they were before it started, both writes coming after every *)
(* step that can fail.                                                     *)
C9_AsStated ==
    (Constructing /\ RaisedCall)
    => /\ environ["HF_HOME"] = last.before.environ["HF_HOME"]
       /\ environ["HF_TOKEN"] = last.before.environ["HF_TOKEN"]

(* C9 amended: a construction that raises because of API_PORT,             *)
(* NUM_WORKERS, the directory of training.output_dir or data.data_dir, or  *)
(* the directory of hf_home leaves HF_HOME and HF_TOKEN as they were       *)
(* before it started; one that raises in the write of HF_TOKEN leaves      *)
(* HF_TOKEN as it was and has already set HF_HOME to the hf_home it asked  *)
(* for.                                                                    *)
C9_FailureKeepsEnv ==
    (Constructing /\ RaisedCall)
    => /\ last.cause \in {"API_PORT", "NUM_WORKERS", "training.output_dir",
                          "data.data_dir", "hf_home"}
            => /\ environ["HF_HOME"] = last.before.environ["HF_HOME"]
               /\ environ["HF_TOKEN"] = last.before.environ["HF_TOKEN"]
       /\ last.cause = "HF_TOKEN"
            => /\ environ["HF_TOKEN"] = last.before.environ["HF_TOKEN"]
               /\ environ["HF_HOME"] = Some(StrOf(RequestedHome))

C9_Witness ==
    /\ last.op = "Settings" /\ RaisedCall
    /\ last.cause = "hf_home"
    /\ last.args.hf_home = <<TxtH>>
    /\ last.args.hf_token = <<Some(TxtXyz)>>
    /\ environ["HF_HOME"] # Some(TxtH)
    /\ environ["HF_TOKEN"] # Some(TxtXyz)

(* C10: once a successful construction has written an explicit hf_home or  *)
(* a non-empty explicit hf_token to the environment, and nothing else has  *)
(* changed that variable since, a successful reload returns an instance    *)
(* with that hf_home, respectively hf_token; and no construction removes   *)
(* HF_HOME or HF_TOKEN from the environment.                               *)
C10_ExplicitValuesPersist ==
    /\ (Reloading /\ Returned /\ ~IsNone(last.before.pinned.hf_home))
        => Built.hf_home = Val(last.before.pinned.hf_home)
    /\ (Reloading /\ Returned /\ ~IsNone(last.before.pinned.hf_token))
        => Built.hf_token = last.before.pinned.hf_token
    /\ (Constructing \/ ProviderCall) =>
        \A n \in {"HF_HOME", "HF_TOKEN"} :
            ~IsNone(last.before.environ[n]) => ~IsNone(environ[n])

C10_Witness ==
    /\ Reloading /\ Returned
    /\ last.before.pinned.hf_home = Some(PathOf(TxtH))
    /\ last.before.pinned.hf_token = Some(TxtXyz)
    /\ Built.hf_home = PathOf(TxtH)
    /\ Built.hf_token = Some(TxtXyz)

-----------------------------------------------------------------------------
(* Properties of the sub-records, under SpecConfig *)

SubRecordDir ==
    CASE last.op = "ModelConfig" -> Built.cache_dir
      [] last.op = "TrainingConfig" -> Built.output_dir
      [] last.op = "DataConfig" -> Built.data_dir

(* C5: after ModelConfig, TrainingConfig or DataConfig is constructed      *)
(* without a path argument, the directory named by its path field exists.  *)
(* ModelConfig() assigns cache_dir and creates nothing, so the property    *)
(* fails where {home}/.cache/huggingface is absent.                        *)
C5_AsStated ==
    (/\ last.op \in {"ModelConfig", "TrainingConfig", "DataConfig"}
     /\ Returned /\ IsNone(last.args))
    => IsDir(fs, SubRecordDir) = "True"

-----------------------------------------------------------------------------
(* Properties of the unguarded slot, under SpecThreads *)

BothSawEmptySlot ==
    \A t \in ThreadIds :
        /\ threads[t].pc = "done"
        /\ ~threads[t].reload
        /\ IsNone(threads[t].saw)

(* C8: two concurrent get_settings() calls can both find the slot empty;   *)
(* then both construct, two distinct instances exist, the slot ends up     *)
(* holding the one stored last, and each call returns one of the two.  The *)
(* witness is the interleaving in which the two calls return distinct      *)
(* instances.                                                              *)
C8_BothConstruct ==
    BothSawEmptySlot =>
        /\ allocated = 2
        /\ Val(threads[1].made).id # Val(threads[2].made).id
        /\ last.op = "store"
        /\ _settings = last.ret
        /\ _settings = threads[last.args].made
        /\ \A t \in ThreadIds : threads[t].ret \in {threads[1].made, threads[2].made}

C8_Witness ==
    /\ BothSawEmptySlot
    /\ threads[1].ret # threads[2].ret
    /\ threads[1].ret = threads[1].made
    /\ threads[2].ret = threads[2].made
    /\ _settings = threads[2].made
    /\ _settings # threads[1].made

-----------------------------------------------------------------------------
(* Properties of the diagram script, under SpecDiagram *)

Exited == script.pc = "exited"

ToolMissing == ~check_mermaid_cli(script.in.cli)

SomeOutputFailed == \E k \in 1..Len(script.results) : script.results[k] # "ok"

(* --file names no existing file, or one that cannot be examined *)
NamedFileMissing ==
    /\ ~ToolMissing /\ ~IsNone(script.in.file)
    /\ Exists(fs, PathOf(Val(script.in.file))) # "True"

(* The input directory cannot be examined, or is missing and could not be  *)
(* created                                                                 *)
InputDirMissing ==
    /\ ~ToolMissing /\ IsNone(script.in.file)
    /\ Exists(fs, PathOf(script.in.input_dir)) # "True"

(* The search of the input directory raises *)
InputDirUnreadable ==
    /\ ~ToolMissing /\ IsNone(script.in.file)
    /\ find_mermaid_files(fs, PathOf(script.in.input_dir)).outcome = "raise"

(* C7 as stated: the script exits with 1 when the tool is missing or no    *)
(* output was generated successfully, and with 0 in every other case.      *)
C7_AsStated ==
    Exited =>
        Val(script.exit) = IF ToolMissing \/ script.success_count = 0 THEN 1 ELSE 0

(* C7 amended: the script exits with 1 when the tool is missing, when the  *)
(* file named by --file does not exist or cannot be examined, when the     *)
(* input directory cannot be examined or searched, or is missing and       *)
(* cannot be created, or when at least one file/format output was not      *)
(* generated (also when others succeeded); it exits with 0 otherwise, that *)
(* is when no .mmd file was found or every output succeeded.               *)
C7_ExitCode ==
    Exited =>
        /\ Val(script.exit) =
              IF \/ ToolMissing \/ NamedFileMissing \/ InputDirMissing
                 \/ InputDirUnreadable \/ SomeOutputFailed
              THEN 1 ELSE 0
        /\ Val(script.exit) = 0 =>
              /\ script.success_count = Len(script.mermaid_files) * Len(script.in.formats)
              /\ Len(script.results) = script.success_count

C7_Witness ==
    /\ Exited
    /\ Val(script.exit) = 1
    /\ script.success_count >= 1
    /\ script.results = <<"ok", "failed">>

====
